---------------------------- MODULE Spec2Model ----------------------------
(***************************************************************************)
(* Model of the deadline analysis service.                                 *)
(*                                                                         *)
(*   ai-service/data_processing.py  the heuristic analysis: feature        *)
(*       extraction, probability estimation, risk analysis,                *)
(*       recommendations, statistics and the analyze_deadline orchestrator *)
(*       (specification Spec);                                             *)
(*   ai-service/main.py             the normalization of the raw model     *)
(*       text inside the /predict handler (specification SpecPredict).     *)
(*                                                                         *)
(* Instants are seconds since 1970-01-01 00:00 (a Thursday).  Real numbers *)
(* are exact fractions [num, den] with den > 0.                            *)
(***************************************************************************)
EXTENDS Integers, Sequences, FiniteSets, TLC

VARIABLES
    now,                \* the wall clock read by datetime.now()
    pc,                 \* position of the caller inside analyze_deadline
    deadline,           \* argument `deadline`
    historical_data,    \* argument `historical_data`
    features,           \* local `features` of analyze_deadline
    base_probability,   \* local `base_probability` of the estimator
    probability,        \* local `probability` of analyze_deadline
    risks,              \* local `risks` of analyze_deadline
    generated,          \* local `recommendations` of the generator when the
                        \* rules have run, before the general ones and [:5]
    recommendations,    \* local `recommendations` of analyze_deadline
    historical_stats,   \* local `historical_stats` of analyze_deadline
    results,            \* what the call gave back to its caller
    ppc,                \* position of the /predict handler
    response_text,      \* local `response_text` of predict
    stages,             \* the stages of the normalization that have run
    heuristic_probability,      \* local `probability` of predict
    factors,                    \* local `factors` of predict
    heuristic_recommendations,  \* local `recommendations` of the fallback
    response            \* what predict gave back to its caller

\* the state of data_processing.py and of main.py
avars == <<now, pc, deadline, historical_data, features, base_probability,
           probability, risks, generated, recommendations, historical_stats,
           results>>
pvars == <<ppc, response_text, stages, heuristic_probability, factors,
           heuristic_recommendations, response>>
vars == <<avars, pvars>>

-----------------------------------------------------------------------------
(* Bounds of the model *)

\* the clock advances at most this many ticks
MaxClock == 2
\* due dates range over this many ticks from the epoch
MaxDue == 16
\* a historical collection holds at most this many records
MaxHist == 4
\* a risk list handed directly to the generator holds at most this many factors
MaxRisks == 2
\* an unstructured model text holds at most this many tokens
MaxLen == 4
\* the containers json.loads can be inside of before the interpreter stops
\* it, scaled down from the recursion limit of the interpreter
RecursionLimit == 3

-----------------------------------------------------------------------------
(* Time *)

HourSeconds == 3600
DaySeconds == 24 * HourSeconds
\* granularity of the clock and of the due dates of the model
TickSeconds == 12 * HourSeconds
\* datetime.weekday() of the epoch day (Monday is 0)
EpochWeekday == 3

\* datetime.weekday()
weekday(t) == ((t \div DaySeconds) + EpochWeekday) % 7
\* datetime.hour
hour(t) == (t % DaySeconds) \div HourSeconds

-----------------------------------------------------------------------------
(* Exact fractions *)

Frac(n, d) == [num |-> n, den |-> d]
FracLess(a, b) == a.num * b.den < b.num * a.den
FracEq(a, b) == a.num * b.den = b.num * a.den
InUnitInterval(p) == 0 <= p.num /\ p.num <= p.den

\* int(x): truncation toward zero of n / d, d > 0
TruncDiv(n, d) == IF n >= 0 THEN n \div d ELSE -((-n) \div d)
Abs(n) == IF n < 0 THEN -n ELSE n

-----------------------------------------------------------------------------
(* DeadlineInfo records and the inputs of the model *)

\* str.lower() on the labels of the model
Lower(s) ==
    CASE s = "Moyenne" -> "moyenne"
      [] s = "HAUTE" -> "haute"
      [] s = "En attente" -> "en attente"
      [] s = "Terminée" -> "terminée"
      [] OTHER -> s

PriorityLabels == {"critique", "haute", "Moyenne", "basse", "urgente"}
StatusLabels == {"nouvelle", "en cours", "En attente", "complétée", "annulée",
                 "bloquée"}

DueDates == {k * TickSeconds : k \in 0..MaxDue}

\* A DeadlineInfo.  tzaware tells whether deadlineDate carries a timezone
\* (datetime.tzinfo is not None); isModel is FALSE for an argument that is
\* no DeadlineInfo at all (None, a plain dict).
DeadlineInfo(date, aware, st, pr) ==
    [isModel |-> TRUE, title |-> "Test d'analyse", descriptionLen |-> 34,
     titleWords |-> 2, deadlineDate |-> date, tzaware |-> aware,
     status |-> st, priority |-> pr]

NotAModel ==
    [isModel |-> FALSE, title |-> "", descriptionLen |-> 0, titleWords |-> 0,
     deadlineDate |-> 0, tzaware |-> FALSE, status |-> "", priority |-> ""]

NoDeadline == NotAModel

NaiveDeadlines ==
    {DeadlineInfo(d, FALSE, st, pr) :
        d \in DueDates, st \in StatusLabels, pr \in PriorityLabels}

AwareDeadlines ==
    {DeadlineInfo(d, TRUE, st, "haute") :
        d \in {0, MaxDue * TickSeconds}, st \in {"en cours", "complétée"}}

Deadlines == NaiveDeadlines \cup AwareDeadlines \cup {NotAModel}

\* The records historical collections are made of
HistPool ==
    <<DeadlineInfo(0, FALSE, "complétée", "basse"),
      DeadlineInfo(3 * TickSeconds, FALSE, "en cours", "HAUTE"),
      DeadlineInfo(TickSeconds, TRUE, "Terminée", "haute")>>

Rep(r, n) == [i \in 1..n |-> r]

\* historical_data: None (given = FALSE) or a list of at most MaxHist records
NoHistory == [given |-> FALSE, items |-> <<>>]
HistCounts ==
    {c \in [1..3 -> 0..MaxHist] : c[1] + c[2] + c[3] <= MaxHist}
History(c) ==
    [given |-> TRUE,
     items |-> Rep(HistPool[1], c[1]) \o Rep(HistPool[2], c[2])
                   \o Rep(HistPool[3], c[3])]
Histories ==
    {NoHistory} \cup {History(c) : c \in HistCounts}
\* bool(historical_data)
Truthy(h) == h.given /\ Len(h.items) > 0

CompletedLabels == {"complétée", "terminée"}
CountWhere(items, Test(_)) == Cardinality({i \in 1..Len(items) : Test(items[i])})
IsCompleted(d) == Lower(d.status) \in CompletedLabels
IsNotCompleted(d) == Lower(d.status) \notin CompletedLabels

-----------------------------------------------------------------------------
(* extract_deadline_features *)

\* the priority table with 0 for a label it does not hold
priority_map_default_zero(label) ==
    CASE label = "critique" -> 4
      [] label = "haute" -> 3
      [] label = "moyenne" -> 2
      [] label = "basse" -> 1
      [] OTHER -> 0

priority_map(label) ==
    CASE label = "critique" -> 4
      [] label = "haute" -> 3
      [] label = "moyenne" -> 2
      [] label = "basse" -> 1
      [] OTHER -> 2

\* the status table with a cancelled record counted as a completed one
status_progress_map_cancelled_done(label) ==
    CASE label = "nouvelle" -> 0
      [] label = "en cours" -> 5
      [] label = "en attente" -> 3
      [] label = "complétée" -> 10
      [] label = "annulée" -> 10
      [] OTHER -> 0


\* status progress in tenths: 0.0, 0.5, 0.3, 1.0, -1.0
status_progress_map(label) ==
    CASE label = "nouvelle" -> 0
      [] label = "en cours" -> 5
      [] label = "en attente" -> 3
      [] label = "complétée" -> 10
      [] label = "annulée" -> -10
      [] OTHER -> 0

\* the exception extract_deadline_features ends with, "" when it returns:
\* an attribute of something that is no DeadlineInfo, or naive now
\* subtracted from an aware deadlineDate
ExtractError(d) ==
    IF ~d.isModel THEN "AttributeError"
    ELSE IF d.tzaware THEN "TypeError"
    ELSE ""

\* days_until_deadline is kept in seconds: days = seconds / DaySeconds
extract_deadline_features(d, t) ==
    LET seconds == d.deadlineDate - t
    IN  [days_until_deadline |-> seconds,
         is_overdue |-> IF seconds < 0 THEN 1 ELSE 0,
         priority_value |-> priority_map(Lower(d.priority)),
         status_progress |-> status_progress_map(Lower(d.status)),
         has_description |-> IF d.descriptionLen > 10 THEN 1 ELSE 0,
         title_word_count |-> d.titleWords,
         is_weekend_deadline |-> IF weekday(d.deadlineDate) >= 5 THEN 1 ELSE 0,
         hour_of_deadline |-> hour(d.deadlineDate)]

NoFeatures ==
    [days_until_deadline |-> 0, is_overdue |-> 0, priority_value |-> 0,
     status_progress |-> 0, has_description |-> 0, title_word_count |-> 0,
     is_weekend_deadline |-> 0, hour_of_deadline |-> 0]

-----------------------------------------------------------------------------
(* estimate_completion_probability, in thousandths before the blend *)

BaseProbability(seconds) ==
    IF seconds < 0 THEN 100
    ELSE IF seconds < 1 * DaySeconds THEN 400
    ELSE IF seconds < 3 * DaySeconds THEN 600
    ELSE IF seconds < 7 * DaySeconds THEN 750
    ELSE 850

priority_adjustment(v) ==
    CASE v = 1 -> 0
      [] v = 2 -> 50
      [] v = 3 -> 100
      [] v = 4 -> 150
      [] OTHER -> 0

status_adjustment(s) ==
    CASE s = 0 -> 0
      [] s = 3 -> 100
      [] s = 5 -> 300
      [] s = 10 -> 500
      [] OTHER -> 0

\* the adjustments with the weekend penalty left out
AdjustedWithoutWeekend(f) ==
    BaseProbability(f.days_until_deadline)
        + priority_adjustment(f.priority_value)
        + status_adjustment(f.status_progress)

\* base, priority, status and weekend adjustments, in thousandths
Adjusted(f) ==
    BaseProbability(f.days_until_deadline)
        + priority_adjustment(f.priority_value)
        + status_adjustment(f.status_progress)
        - (IF f.is_weekend_deadline = 1 THEN 50 ELSE 0)

\* 0.7 * probability + 0.3 * historical_rate when a non-empty history is given
Blended(p, h) ==
    IF Truthy(h)
    THEN LET n == Len(h.items)
             completed == CountWhere(h.items, IsCompleted)
         IN  Frac(7 * p * n + 3000 * completed, 10000 * n)
    ELSE Frac(p, 1000)

\* the clamp with its upper limit forgotten: max(0, probability)
ClampLowerOnly(p) ==
    IF FracLess(p, Frac(0, 1)) THEN Frac(0, 1) ELSE p

\* max(0, min(1, probability))
Clamp(p) ==
    IF FracLess(Frac(1, 1), p) THEN Frac(1, 1)
    ELSE IF FracLess(p, Frac(0, 1)) THEN Frac(0, 1)
    ELSE p

\* the estimator with the clamp applied before the historical blend
estimate_clamp_before_blend(d, h, t) ==
    LET p == Adjusted(extract_deadline_features(d, t))
    IN  Blended(IF p > 1000 THEN 1000 ELSE IF p < 0 THEN 0 ELSE p, h)

estimate_completion_probability(d, h, t) ==
    Clamp(Blended(Adjusted(extract_deadline_features(d, t)), h))

-----------------------------------------------------------------------------
(* analyze_deadline_risks *)

Risk(name, level, n) == [factor |-> name, impact |-> level, description |-> n]

\* the `elif` chain on days_left; description holds the number it prints
TimeRisk(seconds) ==
    IF seconds < 0
    THEN <<Risk("Échéance dépassée", "critical",
                Abs(TruncDiv(seconds, DaySeconds)))>>
    ELSE IF seconds < 1 * DaySeconds
    THEN <<Risk("Délai imminent", "high", 24)>>
    ELSE IF seconds < 3 * DaySeconds
    THEN <<Risk("Délai court", "medium", TruncDiv(seconds, DaySeconds))>>
    ELSE <<>>

PriorityRisk(f) ==
    IF f.priority_value >= 3 /\ f.status_progress < 5
    THEN <<Risk("Tâche haute priorité peu avancée", "high", 0)>>
    ELSE <<>>

WeekendRisk(f) ==
    IF f.is_weekend_deadline = 1
    THEN <<Risk("Échéance en weekend", "low", 0)>>
    ELSE <<>>

HourRisk(f) ==
    IF f.hour_of_deadline < 9 \/ f.hour_of_deadline > 17
    THEN <<Risk("Échéance hors heures de bureau", "low", 0)>>
    ELSE <<>>

\* the historical rule firing from a missed rate of one half on
HistoryRiskFromHalf(h) ==
    IF Truthy(h) /\ Len(h.items) >= 3
    THEN LET missed == CountWhere(h.items, IsNotCompleted)
             n == Len(h.items)
         IN  IF 2 * missed >= n
             THEN <<Risk("Historique défavorable", "medium",
                         (missed * 100) \div n)>>
             ELSE <<>>
    ELSE <<>>


\* int(missed_rate * 100) is the description's number
HistoryRisk(h) ==
    IF Truthy(h) /\ Len(h.items) >= 3
    THEN LET missed == CountWhere(h.items, IsNotCompleted)
             n == Len(h.items)
         IN  IF 2 * missed > n
             THEN <<Risk("Historique défavorable", "medium",
                         (missed * 100) \div n)>>
             ELSE <<>>
    ELSE <<>>

\* the rules with the priority rule placed before the time rule
analyze_deadline_risks_priority_first(d, h, t) ==
    LET f == extract_deadline_features(d, t)
    IN  PriorityRisk(f) \o TimeRisk(f.days_until_deadline) \o WeekendRisk(f)
            \o HourRisk(f) \o HistoryRisk(h)

\* the rules where a time risk suppresses the priority rule
analyze_deadline_risks_time_suppresses(d, h, t) ==
    LET f == extract_deadline_features(d, t)
        time == TimeRisk(f.days_until_deadline)
    IN  time \o (IF time = <<>> THEN PriorityRisk(f) ELSE <<>>)
            \o WeekendRisk(f) \o HourRisk(f) \o HistoryRisk(h)


analyze_deadline_risks(d, h, t) ==
    LET f == extract_deadline_features(d, t)
    IN  TimeRisk(f.days_until_deadline) \o PriorityRisk(f) \o WeekendRisk(f)
            \o HourRisk(f) \o HistoryRisk(h)

-----------------------------------------------------------------------------
(* generate_deadline_recommendations *)

TimeRecommendations(seconds) ==
    IF seconds < 0
    THEN <<"Redéfinir l'échéance avec une nouvelle date réaliste",
           "Communiquer immédiatement avec les parties prenantes concernant le retard">>
    ELSE IF seconds < 1 * DaySeconds
    THEN <<"Concentrer tous les efforts sur cette tâche en priorité",
           "Éliminer toutes les distractions et réunions non essentielles">>
    ELSE IF seconds < 3 * DaySeconds
    THEN <<"Allouer un bloc de temps dédié chaque jour à cette tâche",
           "Identifier et résoudre rapidement les blocages potentiels">>
    ELSE <<>>

StatusRecommendations(f) ==
    IF f.status_progress < 3
    THEN <<"Décomposer l'échéance en sous-tâches plus petites et gérables",
           "Définir des jalons intermédiaires pour suivre la progression">>
    ELSE <<>>

PriorityRecommendations(f) ==
    IF f.priority_value >= 3
    THEN <<"Envisager de déléguer d'autres tâches moins prioritaires",
           "Solliciter des ressources supplémentaires si nécessaire">>
    ELSE <<>>

\* the body of `for risk in risks`
RiskRecommendation(risk) ==
    IF risk.factor = "Échéance en weekend"
    THEN <<"Planifier l'achèvement pour le vendredi précédent">>
    ELSE IF risk.factor = "Historique défavorable"
    THEN <<"Analyser les causes d'échecs précédents pour éviter les mêmes erreurs">>
    ELSE IF risk.factor = "Tâche haute priorité peu avancée"
    THEN <<"Organiser une session de travail intensif (type 'sprint') sur cette tâche">>
    ELSE <<>>

RECURSIVE RiskRecommendations(_)
RiskRecommendations(rs) ==
    IF rs = <<>> THEN <<>>
    ELSE RiskRecommendation(Head(rs)) \o RiskRecommendations(Tail(rs))

GeneralRecommendations ==
    <<"Mettre en place des points de contrôle réguliers pour suivre l'avancement",
      "Documenter les progrès et les obstacles rencontrés",
      "Maintenir une communication claire avec toutes les parties prenantes">>

\* the rules with the priority strings placed before the status strings
RuleRecommendationsPriorityFirst(f, rs) ==
    TimeRecommendations(f.days_until_deadline) \o PriorityRecommendations(f)
        \o StatusRecommendations(f) \o RiskRecommendations(rs)


\* the list before the general recommendations are considered
RuleRecommendations(f, rs) ==
    TimeRecommendations(f.days_until_deadline) \o StatusRecommendations(f)
        \o PriorityRecommendations(f) \o RiskRecommendations(rs)

\* the list before the final slice
GeneratedRecommendations(f, rs) ==
    LET rules == RuleRecommendations(f, rs)
    IN  IF Len(rules) < 3 THEN rules \o GeneralRecommendations ELSE rules

\* the slice one entry too long: recommendations[:6]
FirstSix(list) == SubSeq(list, 1, IF Len(list) < 6 THEN Len(list) ELSE 6)

\* recommendations[:5]
FirstFive(list) == SubSeq(list, 1, IF Len(list) < 5 THEN Len(list) ELSE 5)

generate_deadline_recommendations(d, rs, t) ==
    FirstFive(GeneratedRecommendations(extract_deadline_features(d, t), rs))

-----------------------------------------------------------------------------
(* compute_deadline_stats *)

RECURSIVE SumSeconds(_, _)
SumSeconds(items, t) ==
    IF items = <<>> THEN 0
    ELSE (Head(items).deadlineDate - t) + SumSeconds(Tail(items), t)

\* label -> share of the total, in percent
Distribution(items, Label(_)) ==
    LET labels == {Label(items[i]) : i \in 1..Len(items)}
    IN  [l \in labels |->
            Frac(100 * Cardinality({i \in 1..Len(items) : Label(items[i]) = l}),
                 Len(items))]

PriorityKey(d) == Lower(d.priority)
StatusKey(d) == Lower(d.status)
IsOverdueAt(d, t) == d.deadlineDate < t

EmptyStats ==
    [count |-> 0, overdue_count |-> 0, overdue_percentage |-> Frac(0, 1),
     avg_days_left |-> Frac(0, 1), priority_distribution |-> <<>>,
     status_distribution |-> <<>>]

\* the exception compute_deadline_stats ends with, "" when it returns: an
\* aware deadlineDate compared with naive now
StatsError(items) ==
    IF \E i \in 1..Len(items) : items[i].tzaware THEN "TypeError" ELSE ""

compute_deadline_stats(items, t) ==
    IF items = <<>> THEN EmptyStats
    ELSE LET total == Len(items)
             overdue == Cardinality({i \in 1..total : IsOverdueAt(items[i], t)})
         IN  [count |-> total,
              overdue_count |-> overdue,
              overdue_percentage |-> Frac(overdue * 100, total),
              avg_days_left |-> Frac(SumSeconds(items, t), total * DaySeconds),
              priority_distribution |-> Distribution(items, PriorityKey),
              status_distribution |-> Distribution(items, StatusKey)]

-----------------------------------------------------------------------------
(* Texts.  A text is a sequence of tokens, each a run of characters; the   *)
(* text is their concatenation, with one space between two adjacent tokens *)
(* that both are words, numbers or null.                                   *)

NL == "\n"
Quote(s) == "\"" \o s \o "\""

StringContents ==
    {"completion_probability", "risk_factors", "recommendations", "factor",
     "impact", "A", "B", "high", "0.7"}
StringTokens == {Quote(s) : s \in StringContents}
Unquote(tok) == CHOOSE s \in StringContents : Quote(s) = tok

\* the number literals of the model and float() of each
NumberTokens == {"0.73", "1.7", "0.5", "5", "85", "250"}
NumberValue(tok) ==
    CASE tok = "0.73" -> Frac(73, 100)
      [] tok = "1.7" -> Frac(17, 10)
      [] tok = "0.5" -> Frac(5, 10)
      [] tok = "5" -> Frac(5, 1)
      [] tok = "85" -> Frac(85, 1)
      [] tok = "250" -> Frac(250, 1)

WordTokens == {"Probabilité", "Facteurs", "Recommandations", "mot"}
PunctuationTokens == {"{", "}", "[", "]", ",", ":", "-", NL}

\* character classes of the tokens, as the patterns of the handler see them
IsWhitespace(tok) == tok = NL
\* [A-Z0-9] under re.IGNORECASE, on the first character
StartsAlnum(tok) == tok \in WordTokens \cup NumberTokens \cup {"null"}
\* "probabilité" under re.IGNORECASE
HasProbabilite(tok) == tok = "Probabilité"
\* the first \d+(?:\.\d+)? inside the token
HasDigits(tok) == tok \in NumberTokens \/ tok = Quote("0.7")
DigitRun(tok) == IF tok = Quote("0.7") THEN Frac(7, 10) ELSE NumberValue(tok)
\* (facteurs|risques) and (recommandations|suggestions) under re.IGNORECASE
HasKeyword(tok, keywords) ==
    \/ "facteurs" \in keywords /\ tok = "Facteurs"
    \/ "recommandations" \in keywords /\ tok = "Recommandations"
\* (?:\d+\.|-|\*|•) at the start of the token, and what is left of the token
IsMarker(tok) == tok \in {"-", "0.73", "1.7", "0.5"}
AfterMarker(tok) ==
    CASE tok = "-" -> <<>>
      [] tok = "0.73" -> <<"73">>
      [] tok = "1.7" -> <<"7">>
      [] tok = "0.5" -> <<"5">>

\* the str a run of tokens is
RECURSIVE Text(_)
Text(toks) ==
    IF toks = <<>> THEN ""
    ELSE IF Len(toks) = 1 THEN toks[1]
    ELSE toks[1]
            \o (IF StartsAlnum(toks[1]) /\ StartsAlnum(toks[2]) THEN " " ELSE "")
            \o Text(Tail(toks))

\* least index >= from whose token satisfies Test, 0 when there is none
FirstFrom(toks, from, Test(_)) ==
    LET hits == {i \in from..Len(toks) : Test(toks[i])}
    IN  IF hits = {} THEN 0 ELSE CHOOSE i \in hits : \A j \in hits : i <= j
LastIndex(toks, Test(_)) ==
    LET hits == {i \in 1..Len(toks) : Test(toks[i])}
    IN  IF hits = {} THEN 0 ELSE CHOOSE i \in hits : \A j \in hits : j <= i

\* str.strip()
RECURSIVE Strip(_)
Strip(toks) ==
    IF toks = <<>> THEN <<>>
    ELSE IF IsWhitespace(Head(toks)) THEN Strip(Tail(toks))
    ELSE IF IsWhitespace(toks[Len(toks)]) THEN Strip(SubSeq(toks, 1, Len(toks) - 1))
    ELSE toks

-----------------------------------------------------------------------------
(* json.loads *)

JNull == [type |-> "null"]
JNumber(f) == [type |-> "number", num |-> f]
JString(s) == [type |-> "string", str |-> s]
JList(xs) == [type |-> "list", items |-> xs]
\* a dict: its items in insertion order, each <<key, value>>
JObject(ms) == [type |-> "object", members |-> ms]

\* json.JSONDecodeError
ParseFailed ==
    [ok |-> FALSE, error |-> "JSONDecodeError", value |-> JNull, rest |-> <<>>]
\* RecursionError: the scanner has entered more nested containers than the
\* interpreter allows
ParseOverflow ==
    [ok |-> FALSE, error |-> "RecursionError", value |-> JNull, rest |-> <<>>]
Parsed(v, rest) == [ok |-> TRUE, error |-> "", value |-> v, rest |-> rest]

\* dict assignment: a repeated key keeps its place and takes the new value
SetMember(ms, k, v) ==
    IF \E i \in 1..Len(ms) : ms[i][1] = k
    THEN [i \in 1..Len(ms) |-> IF ms[i][1] = k THEN <<k, v>> ELSE ms[i]]
    ELSE Append(ms, <<k, v>>)

RECURSIVE ParseValue(_, _), ParseMembers(_, _, _), ParseElements(_, _, _)

\* one JSON value at the head of toks, inside depth containers
ParseValue(toks, depth) ==
    IF toks = <<>> THEN ParseFailed
    ELSE LET t == Head(toks)
             r == Tail(toks)
         IN  IF t \in {"{", "["} /\ depth >= RecursionLimit
             THEN ParseOverflow
             ELSE IF t = "{"
             THEN IF r /= <<>> /\ Head(r) = "}"
                  THEN Parsed(JObject(<<>>), Tail(r))
                  ELSE ParseMembers(r, <<>>, depth + 1)
             ELSE IF t = "["
             THEN IF r /= <<>> /\ Head(r) = "]"
                  THEN Parsed(JList(<<>>), Tail(r))
                  ELSE ParseElements(r, <<>>, depth + 1)
             ELSE IF t \in StringTokens THEN Parsed(JString(Unquote(t)), r)
             ELSE IF t \in NumberTokens THEN Parsed(JNumber(NumberValue(t)), r)
             ELSE IF t = "-" /\ r /= <<>> /\ Head(r) \in NumberTokens
             THEN LET v == NumberValue(Head(r))
                  IN  Parsed(JNumber(Frac(-v.num, v.den)), Tail(r))
             ELSE IF t = "null" THEN Parsed(JNull, r)
             ELSE ParseFailed

\* "key": value pairs up to the closing brace, after the members in ms
ParseMembers(toks, ms, depth) ==
    IF Len(toks) < 3 \/ toks[1] \notin StringTokens \/ toks[2] /= ":"
    THEN ParseFailed
    ELSE LET v == ParseValue(SubSeq(toks, 3, Len(toks)), depth)
         IN  IF ~v.ok THEN v
             ELSE IF v.rest = <<>> THEN ParseFailed
             ELSE LET all == SetMember(ms, Unquote(toks[1]), v.value)
                  IN  IF Head(v.rest) = "}" THEN Parsed(JObject(all), Tail(v.rest))
                      ELSE IF Head(v.rest) = ","
                      THEN ParseMembers(Tail(v.rest), all, depth)
                      ELSE ParseFailed

\* values up to the closing bracket, after the elements in xs
ParseElements(toks, xs, depth) ==
    LET v == ParseValue(toks, depth)
    IN  IF ~v.ok THEN v
        ELSE IF v.rest = <<>> THEN ParseFailed
        ELSE IF Head(v.rest) = "]"
        THEN Parsed(JList(Append(xs, v.value)), Tail(v.rest))
        ELSE IF Head(v.rest) = ","
        THEN ParseElements(Tail(v.rest), Append(xs, v.value), depth)
        ELSE ParseFailed

\* json.loads(s): whitespace between the tokens is skipped; ok is FALSE for
\* JSONDecodeError (no value, or extra data) and for RecursionError
json_loads(toks) ==
    LET v == ParseValue(SelectSeq(toks, LAMBDA tok : ~IsWhitespace(tok)), 0)
    IN  IF v.ok /\ v.rest /= <<>> THEN ParseFailed ELSE v

\* dict.get(key, default)
HasKey(obj, key) == \E i \in 1..Len(obj.members) : obj.members[i][1] = key
Get(obj, key, default) ==
    IF HasKey(obj, key)
    THEN LET at == {i \in 1..Len(obj.members) : obj.members[i][1] = key}
         IN  obj.members[CHOOSE i \in at : \A j \in at : j <= i][2]
    ELSE default

-----------------------------------------------------------------------------
(* predict: the object embedded in the text *)

IsOpenBrace(tok) == tok = "{"
IsCloseBrace(tok) == tok = "}"

\* response_text[json_start:json_end+1] when both braces are found
HasBraces(text) ==
    FirstFrom(text, 1, IsOpenBrace) /= 0 /\ LastIndex(text, IsCloseBrace) /= 0
json_str(text) ==
    SubSeq(text, FirstFrom(text, 1, IsOpenBrace), LastIndex(text, IsCloseBrace))

\* the exception float(v) ends with, "" when it returns
NumericStrings == {"0.7"}
FloatOfString(str) == CASE str = "0.7" -> Frac(7, 10)
FloatError(v) ==
    IF v.type = "number" THEN ""
    ELSE IF v.type = "string"
    THEN (IF v.str \in NumericStrings THEN "" ELSE "ValueError")
    ELSE "TypeError"
Float(v) == IF v.type = "number" THEN v.num ELSE FloatOfString(v.str)

\* {"factor": name, "impact": "medium"}
Factor(name) ==
    JObject(<<<<"factor", JString(name)>>, <<"impact", JString("medium")>>>>)

IsStringList(v) ==
    v.type = "list" /\ \A i \in 1..Len(v.items) : v.items[i].type = "string"
IsDictList(v) ==
    v.type = "list" /\ \A i \in 1..Len(v.items) : v.items[i].type = "object"

\* the isinstance chain with the comprehension of the list branch running
\* over the strings from the last to the first
NormalizeRiskFactorsReversed(v) ==
    IF v.type = "string" THEN JList(<<Factor(v.str)>>)
    ELSE IF IsStringList(v)
    THEN JList([i \in 1..Len(v.items) |->
                   Factor(v.items[Len(v.items) + 1 - i].str)])
    ELSE v

\* the isinstance chain on risk_factors
NormalizeRiskFactors(v) ==
    IF v.type = "string" THEN JList(<<Factor(v.str)>>)
    ELSE IF IsStringList(v)
    THEN JList([i \in 1..Len(v.items) |-> Factor(v.items[i].str)])
    ELSE v

\* the isinstance test on recommendations
NormalizeRecommendations(v) == IF v.type = "string" THEN JList(<<v>>) ELSE v

StringsOf(v) == [i \in 1..Len(v.items) |-> v.items[i].str]

NoResponse ==
    [outcome |-> "none", status_code |-> 0,
     completion_probability |-> Frac(0, 1), risk_factors |-> <<>>,
     recommendations |-> <<>>]

\* raise HTTPException(status_code=500, ...)
ServerError == [NoResponse EXCEPT !.outcome = "HTTPException", !.status_code = 500]

\* PredictionResponse(...): pydantic refuses risk_factors that is no list of
\* dicts and recommendations that is no list of str
PredictionResponse(p, rf, rec) ==
    IF IsDictList(rf) /\ IsStringList(rec)
    THEN [outcome |-> "PredictionResponse", status_code |-> 200,
          completion_probability |-> p, risk_factors |-> rf.items,
          recommendations |-> StringsOf(rec)]
    ELSE ServerError

\* the body of the inner try once json.loads has returned prediction_data
Stage1Response(prediction_data) ==
    LET cp == Get(prediction_data, "completion_probability", JNumber(Frac(1, 2)))
    IN  IF FloatError(cp) /= "" THEN ServerError
        ELSE PredictionResponse(
                 Clamp(Float(cp)),
                 NormalizeRiskFactors(Get(prediction_data, "risk_factors", JList(<<>>))),
                 NormalizeRecommendations(
                     Get(prediction_data, "recommendations", JList(<<>>))))

-----------------------------------------------------------------------------
(* predict: the heuristic analysis of the text *)

\* re.search(r"probabilité.*?(\d+(?:\.\d+)?)", text, re.IGNORECASE): the
\* index of the token holding group 1, 0 when there is no match
ProbabilityMatch(text) ==
    LET DigitsAfter(i) ==
            LET d == FirstFrom(text, i + 1, HasDigits)
                n == FirstFrom(text, i + 1, IsWhitespace)
            IN  IF d /= 0 /\ (n = 0 \/ d < n) THEN d ELSE 0
        starts == {i \in 1..Len(text) : HasProbabilite(text[i]) /\ DigitsAfter(i) /= 0}
    IN  IF starts = {} THEN 0
        ELSE DigitsAfter(CHOOSE i \in starts : \A j \in starts : i <= j)

\* float(prob_match.group(1))/100 if prob_match else 0.5
RescuedProbability(text) ==
    LET m == ProbabilityMatch(text)
    IN  IF m = 0 THEN Frac(1, 2)
        ELSE Frac(DigitRun(text[m]).num, DigitRun(text[m]).den * 100)

\* (.*?)(?:\n\n|\n[A-Z0-9]|$) from index start on: the index after group 2
SectionEnd(text, start) ==
    LET Stops(p) ==
            \/ p > Len(text)
            \/ /\ IsWhitespace(text[p])
               /\ \/ p = Len(text)
                  \/ IsWhitespace(text[p + 1])
                  \/ StartsAlnum(text[p + 1])
    IN  CHOOSE p \in start..(Len(text) + 1) :
            Stops(p) /\ \A q \in start..(p - 1) : ~Stops(q)

\* one pattern of extract_section: the keyword, then the first separator
\* after it, then group 2.  found is FALSE when the pattern has no match.
SectionAfter(text, keywords, IsSeparator(_)) ==
    LET IsKeyword(tok) == HasKeyword(tok, keywords)
        k == FirstFrom(text, 1, IsKeyword)
        sep == IF k = 0 THEN 0 ELSE FirstFrom(text, k + 1, IsSeparator)
    IN  IF sep = 0 THEN [found |-> FALSE, section |-> <<>>]
        ELSE [found |-> TRUE,
              section |-> Strip(SubSeq(text, sep + 1, SectionEnd(text, sep + 1) - 1))]

IsColon(tok) == tok = ":"

extract_section(text, keywords) ==
    LET first == SectionAfter(text, keywords, IsWhitespace)
        second == SectionAfter(text, keywords, IsColon)
    IN  IF first.found THEN first.section
        ELSE IF second.found THEN second.section
        ELSE <<>>

\* re.findall(r"(?:^|\n)[\s]*(?:\d+\.|-|\*|\•)[\s]*(.*?)(?:\n|$)", text) from
\* index pos on
RECURSIVE FindItems(_, _)
FindItems(text, pos) ==
    LET NotWhitespace(tok) == ~IsWhitespace(tok)
        \* the index of the marker of a match that starts at s, 0 if none
        MarkerAt(s) ==
            LET c == IF s = 1 /\ ~IsWhitespace(text[1]) THEN 1 ELSE s + 1
                m == IF IsWhitespace(text[s]) \/ s = 1
                     THEN FirstFrom(text, c, NotWhitespace)
                     ELSE 0
            IN  IF m /= 0 /\ IsMarker(text[m]) THEN m ELSE 0
        starts == {s \in pos..Len(text) : MarkerAt(s) /= 0}
    IN  IF starts = {} THEN <<>>
        ELSE LET m == MarkerAt(CHOOSE s \in starts : \A r \in starts : s <= r)
                 left == AfterMarker(text[m])
                 k == IF left /= <<>> THEN m + 1
                      ELSE LET f == FirstFrom(text, m + 1, NotWhitespace)
                           IN  IF f = 0 THEN Len(text) + 1 ELSE f
                 n == FirstFrom(text, k, IsWhitespace)
                 e == IF n = 0 THEN Len(text) + 1 ELSE n
             IN  <<left \o SubSeq(text, k, e - 1)>> \o FindItems(text, e + 1)

\* [line.strip() for line in text.split("\n") if line.strip()]
RECURSIVE Lines(_)
Lines(text) ==
    LET n == FirstFrom(text, 1, IsWhitespace)
    IN  IF text = <<>> THEN <<>>
        ELSE IF n = 0 THEN <<text>>
        ELSE (IF n = 1 THEN <<>> ELSE <<SubSeq(text, 1, n - 1)>>)
                 \o Lines(SubSeq(text, n + 1, Len(text)))

TextsOf(items) == [i \in 1..Len(items) |-> Text(items[i])]

parse_list_items(text) ==
    LET items == FindItems(text, 1)
    IN  IF items /= <<>> THEN TextsOf(items)
        ELSE IF Lines(text) /= <<>> THEN TextsOf(Lines(text))
        ELSE <<Text(text)>>

\* parse_list_items(section) if section else [default]
SectionItems(text, keywords, default) ==
    LET section == extract_section(text, keywords)
    IN  IF section /= <<>> THEN parse_list_items(section) ELSE <<default>>

-----------------------------------------------------------------------------
(* analyze_deadline, one action per statement of its body *)

NoStats == [given |-> FALSE, value |-> EmptyStats]
NoResults ==
    [outcome |-> "none", has_features |-> FALSE, has_stats |-> FALSE,
     completion_probability |-> Frac(0, 1), risk_factors |-> <<>>,
     recommendations |-> <<>>]

\* the dict of the except branch
MinimalResults ==
    [outcome |-> "returned", has_features |-> FALSE, has_stats |-> FALSE,
     completion_probability |-> Frac(1, 2),
     risk_factors |-> <<[factor |-> "Erreur d'analyse", impact |-> "medium"]>>,
     recommendations |-> <<"Vérifier les données de l'échéance">>]

\* analyze_deadline ended with an exception that reached its caller
Raised == [NoResults EXCEPT !.outcome = "raised"]

\* the risk lists of the direct calls of the generator
RiskPool ==
    {Risk("Échéance en weekend", "low", 0),
     Risk("Historique défavorable", "medium", 66),
     Risk("Tâche haute priorité peu avancée", "high", 0),
     Risk("Délai imminent", "high", 24)}
RiskLists == UNION {[1..n -> RiskPool] : n \in 0..MaxRisks}

Init ==
    /\ now = 0
    /\ pc = "idle"
    /\ deadline = NoDeadline
    /\ historical_data = NoHistory
    /\ features = NoFeatures
    /\ base_probability = 0
    /\ probability = Frac(0, 1)
    /\ risks = <<>>
    /\ generated = <<>>
    /\ recommendations = <<>>
    /\ historical_stats = NoStats
    /\ results = NoResults
    /\ ppc = "idle"
    /\ response_text = <<>>
    /\ stages = <<>>
    /\ heuristic_probability = Frac(0, 1)
    /\ factors = <<>>
    /\ heuristic_recommendations = <<>>
    /\ response = NoResponse

\* time passes, at any point of a call or between calls
Tick ==
    /\ now < MaxClock * TickSeconds
    /\ now' = now + TickSeconds
    /\ UNCHANGED <<pc, deadline, historical_data, features, base_probability,
                   probability, risks, generated, recommendations,
                   historical_stats, results>>
    /\ UNCHANGED pvars

\* analyze_deadline(deadline, historical_data) is called
Call ==
    /\ pc = "idle"
    /\ \E d \in Deadlines, h \in Histories :
          /\ deadline' = d
          /\ historical_data' = h
    /\ pc' = "extract"
    /\ UNCHANGED <<now, features, base_probability, probability, risks,
                   generated, recommendations, historical_stats, results>>
    /\ UNCHANGED pvars

\* features = extract_deadline_features(deadline)
Extract ==
    /\ pc = "extract"
    /\ IF ExtractError(deadline) /= ""
       THEN pc' = "except" /\ UNCHANGED features
       ELSE /\ features' = extract_deadline_features(deadline, now)
            /\ pc' = "estimate"
    /\ UNCHANGED <<now, deadline, historical_data, base_probability,
                   probability, risks, generated, recommendations,
                   historical_stats, results>>
    /\ UNCHANGED pvars

\* probability = estimate_completion_probability(deadline, historical_data)
Estimate ==
    /\ pc = "estimate"
    /\ IF ExtractError(deadline) /= ""
       THEN pc' = "except" /\ UNCHANGED <<base_probability, probability>>
       ELSE /\ base_probability' =
                  BaseProbability(
                      extract_deadline_features(deadline, now).days_until_deadline)
            /\ probability' =
                  estimate_completion_probability(deadline, historical_data, now)
            /\ pc' = "risks"
    /\ UNCHANGED <<now, deadline, historical_data, features, risks, generated,
                   recommendations, historical_stats, results>>
    /\ UNCHANGED pvars

\* risks = analyze_deadline_risks(deadline, historical_data)
Risks ==
    /\ pc = "risks"
    /\ IF ExtractError(deadline) /= ""
       THEN pc' = "except" /\ UNCHANGED risks
       ELSE /\ risks' = analyze_deadline_risks(deadline, historical_data, now)
            /\ pc' = "recommend"
    /\ UNCHANGED <<now, deadline, historical_data, features, base_probability,
                   probability, generated, recommendations, historical_stats,
                   results>>
    /\ UNCHANGED pvars

\* recommendations = generate_deadline_recommendations(deadline, risks)
Recommend ==
    /\ pc = "recommend"
    /\ IF ExtractError(deadline) /= ""
       THEN pc' = "except" /\ UNCHANGED <<generated, recommendations>>
       ELSE /\ generated' =
                  RuleRecommendations(
                      extract_deadline_features(deadline, now), risks)
            /\ recommendations' =
                  generate_deadline_recommendations(deadline, risks, now)
            /\ pc' = "stats"
    /\ UNCHANGED <<now, deadline, historical_data, features, base_probability,
                   probability, risks, historical_stats, results>>
    /\ UNCHANGED pvars

\* historical_stats = compute_deadline_stats(historical_data)
\*                        if historical_data else None
Stats ==
    /\ pc = "stats"
    /\ IF Truthy(historical_data)
       THEN IF StatsError(historical_data.items) /= ""
            THEN pc' = "except" /\ UNCHANGED historical_stats
            ELSE /\ historical_stats' =
                       [given |-> TRUE,
                        value |-> compute_deadline_stats(historical_data.items, now)]
                 /\ pc' = "assemble"
       ELSE historical_stats' = NoStats /\ pc' = "assemble"
    /\ UNCHANGED <<now, deadline, historical_data, features, base_probability,
                   probability, risks, generated, recommendations, results>>
    /\ UNCHANGED pvars

\* results = {...}; return results
Assemble ==
    /\ pc = "assemble"
    /\ results' =
           [outcome |-> "returned", has_features |-> TRUE,
            has_stats |-> historical_stats.given,
            completion_probability |-> probability,
            risk_factors |-> risks,
            recommendations |-> recommendations]
    /\ pc' = "returned"
    /\ UNCHANGED <<now, deadline, historical_data, features, base_probability,
                   probability, risks, generated, recommendations,
                   historical_stats>>
    /\ UNCHANGED pvars

\* except Exception: return {"deadline_info": deadline.dict(), ...}
Except ==
    /\ pc = "except"
    /\ IF deadline.isModel
       THEN results' = MinimalResults /\ pc' = "returned"
       ELSE results' = Raised /\ pc' = "raised"
    /\ UNCHANGED <<now, deadline, historical_data, features, base_probability,
                   probability, risks, generated, recommendations,
                   historical_stats>>
    /\ UNCHANGED pvars

-----------------------------------------------------------------------------
(* The functions of the module called on their own *)

\* extract_deadline_features(d)
CallExtractor ==
    /\ pc = "idle"
    /\ \E d \in Deadlines :
          /\ deadline' = d
          /\ IF ExtractError(d) /= ""
             THEN pc' = "raised" /\ UNCHANGED features
             ELSE /\ features' = extract_deadline_features(d, now)
                  /\ pc' = "extracted"
    /\ UNCHANGED <<now, historical_data, base_probability, probability, risks,
                   generated, recommendations, historical_stats, results>>
    /\ UNCHANGED pvars

\* estimate_completion_probability(d, h)
CallEstimator ==
    /\ pc = "idle"
    /\ \E d \in Deadlines, h \in Histories :
          /\ deadline' = d
          /\ historical_data' = h
          /\ IF ExtractError(d) /= ""
             THEN /\ pc' = "raised"
                  /\ UNCHANGED <<base_probability, probability>>
             ELSE /\ base_probability' =
                        BaseProbability(
                            extract_deadline_features(d, now).days_until_deadline)
                  /\ probability' = estimate_completion_probability(d, h, now)
                  /\ pc' = "estimated"
    /\ UNCHANGED <<now, features, risks, generated, recommendations,
                   historical_stats, results>>
    /\ UNCHANGED pvars

\* analyze_deadline_risks(d, h)
CallAnalyzer ==
    /\ pc = "idle"
    /\ \E d \in Deadlines, h \in Histories :
          /\ deadline' = d
          /\ historical_data' = h
          /\ IF ExtractError(d) /= ""
             THEN pc' = "raised" /\ UNCHANGED risks
             ELSE /\ risks' = analyze_deadline_risks(d, h, now)
                  /\ pc' = "analyzed"
    /\ UNCHANGED <<now, features, base_probability, probability, generated,
                   recommendations, historical_stats, results>>
    /\ UNCHANGED pvars

\* generate_deadline_recommendations(d, rs)
CallGenerator ==
    /\ pc = "idle"
    /\ \E d \in Deadlines, rs \in RiskLists :
          /\ deadline' = d
          /\ risks' = rs
          /\ IF ExtractError(d) /= ""
             THEN /\ pc' = "raised"
                  /\ UNCHANGED <<generated, recommendations>>
             ELSE /\ generated' =
                        RuleRecommendations(
                            extract_deadline_features(d, now), rs)
                  /\ recommendations' =
                        generate_deadline_recommendations(d, rs, now)
                  /\ pc' = "generated"
    /\ UNCHANGED <<now, historical_data, features, base_probability,
                   probability, historical_stats, results>>
    /\ UNCHANGED pvars

\* compute_deadline_stats(h)
CallAggregator ==
    /\ pc = "idle"
    /\ \E h \in Histories \ {NoHistory} :
          /\ historical_data' = h
          /\ IF StatsError(h.items) /= ""
             THEN pc' = "raised" /\ UNCHANGED historical_stats
             ELSE /\ historical_stats' =
                        [given |-> TRUE,
                         value |-> compute_deadline_stats(h.items, now)]
                  /\ pc' = "aggregated"
    /\ UNCHANGED <<now, deadline, features, base_probability, probability,
                   risks, generated, recommendations, results>>
    /\ UNCHANGED pvars

\* the caller has its answer; the locals are gone
Return ==
    /\ pc \in {"returned", "raised", "extracted", "estimated", "analyzed",
               "generated", "aggregated"}
    /\ pc' = "idle"
    /\ deadline' = NoDeadline
    /\ historical_data' = NoHistory
    /\ features' = NoFeatures
    /\ base_probability' = 0
    /\ probability' = Frac(0, 1)
    /\ risks' = <<>>
    /\ generated' = <<>>
    /\ recommendations' = <<>>
    /\ historical_stats' = NoStats
    /\ results' = NoResults
    /\ UNCHANGED now
    /\ UNCHANGED pvars

Next ==
    \/ Tick
    \/ Call
    \/ Extract
    \/ Estimate
    \/ Risks
    \/ Recommend
    \/ Stats
    \/ Assemble
    \/ Except
    \/ CallExtractor
    \/ CallEstimator
    \/ CallAnalyzer
    \/ CallGenerator
    \/ CallAggregator
    \/ Return

Spec == Init /\ [][Next]_vars

-----------------------------------------------------------------------------
(* The texts the model answers with *)

PlainTokens ==
    {"{", "}", ":", "-", NL, "Probabilité", "Facteurs", "Recommandations",
     "mot", "250"}
\* unstructured texts
PlainTexts == UNION {[1..n -> PlainTokens] : n \in 0..MaxLen}

Field(key, values) == {<<>>} \cup {<<Quote(key), ":">> \o v : v \in values}
ProbabilityFields ==
    Field("completion_probability",
          {<<"0.73">>, <<"1.7">>, <<"-", "0.5">>, <<Quote("0.7")>>,
           <<Quote("high")>>, <<"null">>, <<"[", "]">>, <<"{", "}">>})
RiskFields ==
    Field("risk_factors",
          {<<Quote("A")>>, <<"[", Quote("A"), "]">>,
           <<"[", Quote("A"), ",", Quote("B"), "]">>,
           <<"[", "{", Quote("factor"), ":", Quote("A"), ",", Quote("impact"),
             ":", Quote("high"), "}", "]">>,
           <<"[", "]">>, <<"5">>})
RecommendationFields ==
    Field("recommendations",
          {<<Quote("B")>>, <<"[", Quote("B"), ",", Quote("A"), "]">>,
           <<"[", "]">>, <<"null">>})

\* the fields that are present, separated by commas, between braces
RECURSIVE Members(_)
Members(fields) ==
    IF fields = <<>> THEN <<>>
    ELSE IF Head(fields) = <<>> THEN Members(Tail(fields))
    ELSE LET rest == Members(Tail(fields))
         IN  Head(fields) \o (IF rest = <<>> THEN <<>> ELSE <<",">> \o rest)
ObjectText(fields) == <<"{">> \o Members(fields) \o <<"}">>

\* texts with an object in them, after and before some more text
ObjectTexts ==
    {pre \o ObjectText(<<p, r, c>>) \o post :
        p \in ProbabilityFields, r \in RiskFields, c \in RecommendationFields,
        pre \in {<<>>, <<"mot">>, <<"{">>, <<"Probabilité", "85">>},
        post \in {<<>>, <<"mot">>, <<"}">>}}

\* texts whose object holds lists inside lists, up to one more than
\* json.loads can enter
NestedTexts ==
    {<<"{", Quote("risk_factors"), ":">> \o [i \in 1..n |-> "["] \o <<"}">> :
        n \in 1..RecursionLimit}

Texts == PlainTexts \cup ObjectTexts \cup NestedTexts

-----------------------------------------------------------------------------
(* predict, from the answer of the model to the response *)

\* response_text = await generate_response_ollama(messages)
Receive ==
    /\ ppc = "idle"
    /\ \E text \in Texts : response_text' = text
    /\ ppc' = "stage1"
    /\ UNCHANGED <<stages, heuristic_probability, factors,
                   heuristic_recommendations, response>>
    /\ UNCHANGED avars

\* json_start ... except json.JSONDecodeError
Stage1 ==
    /\ ppc = "stage1"
    /\ stages' = Append(stages, "stage1")
    /\ IF HasBraces(response_text) /\ json_loads(json_str(response_text)).ok
       THEN /\ response' =
                  Stage1Response(json_loads(json_str(response_text)).value)
            /\ ppc' = "done"
       ELSE IF /\ HasBraces(response_text)
               /\ json_loads(json_str(response_text)).error = "RecursionError"
       THEN response' = ServerError /\ ppc' = "done"
       ELSE ppc' = "stage2" /\ UNCHANGED response
    /\ UNCHANGED <<response_text, heuristic_probability, factors,
                   heuristic_recommendations>>
    /\ UNCHANGED avars

\* prob_match = ...; probability = ...
Stage2 ==
    /\ ppc = "stage2"
    /\ stages' = Append(stages, "stage2")
    /\ heuristic_probability' = RescuedProbability(response_text)
    /\ ppc' = "stage3"
    /\ UNCHANGED <<response_text, factors, heuristic_recommendations, response>>
    /\ UNCHANGED avars

\* factors_section = ...; factors = ...
Stage3 ==
    /\ ppc = "stage3"
    /\ stages' = Append(stages, "stage3")
    /\ factors' = SectionItems(response_text, {"facteurs", "risques"}, "Délai serré")
    /\ ppc' = "stage4"
    /\ UNCHANGED <<response_text, heuristic_probability,
                   heuristic_recommendations, response>>
    /\ UNCHANGED avars

\* recommendations_section = ...; return PredictionResponse(...)
Stage4 ==
    /\ ppc = "stage4"
    /\ stages' = Append(stages, "stage4")
    /\ LET recs == SectionItems(response_text, {"recommandations", "suggestions"},
                                "Planifier les étapes")
       IN  /\ heuristic_recommendations' = recs
           /\ response' =
                 PredictionResponse(
                     heuristic_probability,
                     JList([i \in 1..Len(factors) |-> Factor(factors[i])]),
                     JList([i \in 1..Len(recs) |-> JString(recs[i])]))
    /\ ppc' = "done"
    /\ UNCHANGED <<response_text, heuristic_probability, factors>>
    /\ UNCHANGED avars

\* the caller has its response; the locals are gone
Respond ==
    /\ ppc = "done"
    /\ ppc' = "idle"
    /\ response_text' = <<>>
    /\ stages' = <<>>
    /\ heuristic_probability' = Frac(0, 1)
    /\ factors' = <<>>
    /\ heuristic_recommendations' = <<>>
    /\ response' = NoResponse
    /\ UNCHANGED avars

NextPredict ==
    \/ Receive
    \/ Stage1
    \/ Stage2
    \/ Stage3
    \/ Stage4
    \/ Respond

SpecPredict == Init /\ [][NextPredict]_vars


-----------------------------------------------------------------------------
(* Properties of analyze_deadline and of the functions it calls *)

\* C1: analyze_deadline is total.  No call of it ends with an exception that
\* reaches the caller, whatever the input (a malformed record included), and
\* a call in which a component failed returns the minimal safe result:
\* probability 0.5, the one 'analysis error' factor of impact medium and the
\* one recommendation to verify the data.
C1_AnalyzeNeverPropagates ==
    /\ results.outcome /= "raised"
    /\ (pc = "returned" /\ ~results.has_features) =>
          /\ FracEq(results.completion_probability, Frac(1, 2))
          /\ Len(results.risk_factors) = 1
          /\ results.risk_factors[1].impact = "medium"
          /\ Len(results.recommendations) = 1

\* C5: for every record, every value of now and every historical collection
\* (absent, empty or not), the value estimate_completion_probability returns
\* lies in [0, 1].
C5_EstimateInUnitInterval ==
    pc \in {"estimated", "risks"} => InUnitInterval(probability)

\* C5 witness: the estimator has returned for a completed record of critical
\* priority due in more than a week and a non-empty history, whose blend is
\* at least 0.7 * 1.5, and the value is the upper limit
C5_EstimateClamped ==
    /\ pc = "estimated"
    /\ Truthy(historical_data)
    /\ base_probability = 850
    /\ deadline.priority = "critique"
    /\ deadline.status = "complétée"
    /\ probability = Frac(1, 1)

\* the days-until-due tier: 0 for < 0, 1 for < 1, 2 for < 3, 3 for < 7, 4 above
TierOf(seconds) ==
    IF seconds < 0 THEN 0
    ELSE IF seconds < 1 * DaySeconds THEN 1
    ELSE IF seconds < 3 * DaySeconds THEN 2
    ELSE IF seconds < 7 * DaySeconds THEN 3
    ELSE 4
\* the tier a base probability (in thousandths) stands for
BucketTier(base) ==
    CASE base = 100 -> 0 [] base = 400 -> 1 [] base = 600 -> 2
      [] base = 750 -> 3 [] OTHER -> 4
\* the tier the time factor at the head of a risk list stands for; the
\* analyzer and the generator do not tell tier 3 from tier 4
RiskTier(rs) ==
    IF rs = <<>> THEN 3
    ELSE CASE rs[1].factor = "Échéance dépassée" -> 0
           [] rs[1].factor = "Délai imminent" -> 1
           [] rs[1].factor = "Délai court" -> 2
           [] OTHER -> 3
\* the tier the time strings at the head of a recommendation list stand for
RecommendationTier(recs) ==
    IF recs = <<>> THEN 3
    ELSE CASE recs[1] = TimeRecommendations(-1)[1] -> 0
           [] recs[1] = TimeRecommendations(0)[1] -> 1
           [] recs[1] = TimeRecommendations(DaySeconds)[1] -> 2
           [] OTHER -> 3
CoarseTier(t) == IF t > 3 THEN 3 ELSE t

\* C6: within one analyze_deadline call every component observes the same
\* 'now': the tier and the overdue flag of the returned features, the base
\* bucket of the estimator, the time factor of the risk analyzer and the time
\* strings of the generator all stand for one and the same tier, even when
\* the clock advances between the steps of the call.
C6_SingleNowSnapshot ==
    (pc = "returned" /\ results.has_features) =>
        LET t == TierOf(features.days_until_deadline)
        IN  /\ features.is_overdue = (IF t = 0 THEN 1 ELSE 0)
            /\ BucketTier(base_probability) = t
            /\ RiskTier(results.risk_factors) = CoarseTier(t)
            /\ RecommendationTier(results.recommendations) = CoarseTier(t)

\* C7: for every record and every list of risk factors,
\* generate_deadline_recommendations returns at most 5 entries, and at least
\* 3 whenever the time, status, priority and risk rules together generated
\* fewer than 3.
C7_AtMostFiveAtLeastThree ==
    pc \in {"generated", "stats"} =>
        /\ Len(recommendations) <= 5
        /\ Len(generated) < 3 => Len(recommendations) >= 3

\* C7 witness: the generator has returned after its rules gave one entry only,
\* for a risk list handed to it directly
C7_FallbackFired ==
    /\ pc = "generated"
    /\ Len(risks) > 0
    /\ Len(generated) = 1
    /\ Len(recommendations) = 4

\* C8: for every record whose due date is earlier than now, the overdue flag
\* extract_deadline_features returns is true and the first entry of the list
\* analyze_deadline_risks returns has impact 'critical', whatever the
\* priority, status, weekday, hour and historical collection.
C8_OverdueIsCritical ==
    [][/\ (pc' \in {"extracted", "estimate"} /\ pc' /= pc
              /\ deadline'.deadlineDate < now)
          => features'.is_overdue = 1
       /\ (pc' \in {"analyzed", "recommend"} /\ pc' /= pc
              /\ deadline'.deadlineDate < now)
          => (Len(risks') > 0 /\ risks'[1].impact = "critical")]_vars

\* C8 witness: the analyzer has returned for an overdue record of high
\* priority and no progress, with more entries after the critical one
C8_OverdueAnalyzed ==
    /\ pc = "analyzed"
    /\ deadline.deadlineDate < now
    /\ deadline.priority = "critique"
    /\ deadline.status = "nouvelle"
    /\ Len(risks) > 1
    /\ risks[1].factor = "Échéance dépassée"
    /\ risks[1].impact = "critical"

\* C10: extract_deadline_features is total on valid records, whose due date
\* carries a timezone: no call with such a record ends with an exception,
\* and analyze_deadline on such a record returns the heuristic result, not
\* the minimal one.
C10_ExtractionTotal ==
    (deadline.isModel /\ deadline.tzaware) =>
        /\ pc /= "raised"
        /\ pc = "returned" => results.has_features

\* the labels the two tables of extract_deadline_features hold
KnownPriorities == {"critique", "haute", "moyenne", "basse"}
KnownStatuses == {"nouvelle", "en cours", "en attente", "complétée", "annulée"}

\* C11: for every priority label outside the known set (compared without
\* case) extract_deadline_features yields priority level 2, for every status
\* label outside the known set status progress 0.0; extracting again from the
\* same record, whatever the clock, yields the same two values; the level is
\* always in 1..4 and the progress in {-1.0, 0.0, 0.3, 0.5, 1.0}.
C11_UnknownLabelsDefault ==
    pc \in {"extracted", "estimate"} =>
        /\ Lower(deadline.priority) \notin KnownPriorities
              => features.priority_value = 2
        /\ Lower(deadline.status) \notin KnownStatuses
              => features.status_progress = 0
        /\ extract_deadline_features(deadline, now).priority_value
              = features.priority_value
        /\ extract_deadline_features(deadline, now).status_progress
              = features.status_progress
        /\ features.priority_value \in 1..4
        /\ features.status_progress \in {-10, 0, 3, 5, 10}

\* C11 witness: the extractor has returned for a record whose priority and
\* status labels are both unknown, and the clock has moved since
C11_UnknownLabelsExtracted ==
    /\ pc = "extracted"
    /\ deadline.priority = "urgente"
    /\ deadline.status = "bloquée"
    /\ features.priority_value = 2
    /\ features.status_progress = 0
    /\ deadline.deadlineDate - now /= features.days_until_deadline

\* analyze_deadline has returned the heuristic result for the record of the
\* scenario: due 2 days after the clock value the extraction read, priority
\* 'haute', status 'en cours', no historical data, and less than a day has
\* gone by since the extraction, so every component saw the same tier
ScenarioReturned ==
    /\ pc = "returned"
    /\ results.has_features
    /\ features.days_until_deadline = 2 * DaySeconds
    /\ deadline.deadlineDate - now >= 1 * DaySeconds
    /\ deadline.priority = "haute"
    /\ deadline.status = "en cours"
    /\ ~Truthy(historical_data)

\* the rest of the scenario: the '<3 days' factor is in the risk list and the
\* recommendation list has between 1 and 5 entries
ScenarioLists ==
    /\ \E i \in 1..Len(results.risk_factors) :
          /\ results.risk_factors[i].factor = "Délai court"
          /\ results.risk_factors[i].impact = "medium"
    /\ Len(results.recommendations) >= 1
    /\ Len(results.recommendations) <= 5

C13_StatsNeverRaise ==
    [][/\ pc = "stats" => pc' /= "except"
       /\ (pc = "idle" /\ pc' = "aggregated" /\ historical_data'.items = <<>>)
          => /\ historical_stats'.value.count = 0
             /\ historical_stats'.value.overdue_count = 0
             /\ FracEq(historical_stats'.value.overdue_percentage, Frac(0, 1))
             /\ FracEq(historical_stats'.value.avg_days_left, Frac(0, 1))
             /\ historical_stats'.value.priority_distribution = <<>>
             /\ historical_stats'.value.status_distribution = <<>>]_vars

\* the reference of the estimator, in thousandths: first matching bucket of
\* the days until due, then the three additive adjustments
ReferenceBase(seconds) ==
    CASE seconds < 0 -> 100
      [] seconds >= 0 /\ seconds < DaySeconds -> 400
      [] seconds >= DaySeconds /\ seconds < 3 * DaySeconds -> 600
      [] seconds >= 3 * DaySeconds /\ seconds < 7 * DaySeconds -> 750
      [] OTHER -> 850
ReferenceAdditive(f) ==
    ReferenceBase(f.days_until_deadline)
        + (f.priority_value - 1) * 50
        + (CASE f.status_progress = 3 -> 100
             [] f.status_progress = 5 -> 300
             [] f.status_progress = 10 -> 500
             [] OTHER -> 0)
        - f.is_weekend_deadline * 50
\* then 0.7 * p + 0.3 * historical_rate for a collection of size >= 1, then
\* the clamp to [0, 1]
ReferenceEstimate(f, h) ==
    LET p == ReferenceAdditive(f)
        n == Len(h.items)
        completed ==
            Cardinality({i \in 1..n :
                Lower(h.items[i].status) \in {"complétée", "terminée"}})
        blended ==
            IF h.given /\ n >= 1
            THEN Frac(7 * p * n + 3000 * completed, 10000 * n)
            ELSE Frac(p, 1000)
    IN  IF blended.num > blended.den THEN Frac(1, 1)
        ELSE IF blended.num < 0 THEN Frac(0, 1)
        ELSE blended

\* C14: for every input the value estimate_completion_probability returns
\* equals clamp01(blend(base + priority_adj + status_adj - weekend_penalty)),
\* the steps in this order; overdue, 'basse', 'nouvelle', due on a weekday,
\* with 1 of 4 historical records completed gives 0.145.
C14_EstimateIsReference ==
    [][(pc' \in {"estimated", "risks"} /\ pc' /= pc) =>
          /\ FracEq(probability',
                    ReferenceEstimate(extract_deadline_features(deadline', now),
                                      historical_data'))
          /\ (/\ deadline'.deadlineDate < now
              /\ weekday(deadline'.deadlineDate) < 5
              /\ deadline'.priority = "basse"
              /\ deadline'.status = "nouvelle"
              /\ Len(historical_data'.items) = 4
              /\ CountWhere(historical_data'.items, IsCompleted) = 1)
             => FracEq(probability', Frac(145, 1000))]_vars

\* C14 witness: the estimator has returned 0.145 for the overdue record of
\* low priority and no progress with 1 of 4 historical records completed
C14_ExampleEstimated ==
    /\ pc = "estimated"
    /\ base_probability = 100
    /\ deadline.priority = "basse"
    /\ deadline.status = "nouvelle"
    /\ Len(historical_data.items) = 4
    /\ CountWhere(historical_data.items, IsCompleted) = 1
    /\ FracEq(probability, Frac(145, 1000))

\* the position of a risk factor's rule in the fixed rule order
RuleRank(factor) ==
    CASE factor \in {"Échéance dépassée", "Délai imminent", "Délai court"} -> 1
      [] factor = "Tâche haute priorité peu avancée" -> 2
      [] factor = "Échéance en weekend" -> 3
      [] factor = "Échéance hors heures de bureau" -> 4
      [] factor = "Historique défavorable" -> 5
      [] OTHER -> 0

HasRule(rs, rank) == \E i \in 1..Len(rs) : RuleRank(rs[i].factor) = rank

ImpactOfRule(rs, rank) ==
    {rs[i].impact : i \in {j \in 1..Len(rs) : RuleRank(rs[j].factor) = rank}}

\* C15: the list analyze_deadline_risks returns is a subsequence of the fixed
\* rule order time, priority/progress, weekend, off-hours, historical; it
\* holds at most one time risk (critical below 0 days, high below 1, medium
\* below 3, none from 3 on), and each other rule contributes exactly when
\* its own condition holds, whatever the earlier rules did.
C15_RisksInRuleOrder ==
    [][(pc' \in {"analyzed", "recommend"} /\ pc' /= pc) =>
          LET f == extract_deadline_features(deadline', now)
              h == historical_data'
              seconds == deadline'.deadlineDate - now
              n == Len(h.items)
          IN  /\ \A i \in 1..Len(risks') : RuleRank(risks'[i].factor) \in 1..5
              /\ \A i, j \in 1..Len(risks') :
                    i < j => RuleRank(risks'[i].factor)
                                 < RuleRank(risks'[j].factor)
              /\ ImpactOfRule(risks', 1) =
                    (CASE seconds < 0 -> {"critical"}
                       [] seconds >= 0 /\ seconds < DaySeconds -> {"high"}
                       [] seconds >= DaySeconds /\ seconds < 3 * DaySeconds
                            -> {"medium"}
                       [] OTHER -> {})
              /\ HasRule(risks', 2) <=>
                    (f.priority_value >= 3 /\ f.status_progress < 5)
              /\ HasRule(risks', 3) <=> (weekday(deadline'.deadlineDate) >= 5)
              /\ HasRule(risks', 4) <=>
                    (f.hour_of_deadline < 9 \/ f.hour_of_deadline > 17)
              /\ HasRule(risks', 5) <=>
                    (/\ h.given
                     /\ n >= 3
                     /\ 2 * CountWhere(h.items, IsNotCompleted) > n)]_vars

\* C15 witness: the analyzer has returned a medium time risk ahead of the
\* high priority/progress risk, with the historical risk last
C15_MediumBeforeHigh ==
    /\ pc = "analyzed"
    /\ Len(risks) >= 3
    /\ risks[1].factor = "Délai court" /\ risks[1].impact = "medium"
    /\ risks[2].factor = "Tâche haute priorité peu avancée"
    /\ risks[2].impact = "high"
    /\ risks[Len(risks)].factor = "Historique défavorable"

\* the records of a collection whose status, lower-cased, is not a completed one
MissedCount(h) ==
    Cardinality({i \in 1..Len(h.items) :
        Lower(h.items[i].status) \notin {"complétée", "terminée"}})

HasHistoryFactor(rs) ==
    \E i \in 1..Len(rs) : rs[i].factor = "Historique défavorable"

\* C16: the list analyze_deadline_risks returns holds the historical factor
\* exactly when the collection has at least 3 records and strictly more than
\* half of them are not completed, statuses compared without case; a
\* collection of 1 or 2 records never produces it, though the estimator
\* blends with it, and a missed rate of exactly one half does not produce it.
C16_HistoryFactorThreshold ==
    [][/\ (pc' \in {"analyzed", "recommend"} /\ pc' /= pc) =>
             LET h == historical_data'
                 n == Len(h.items)
             IN  /\ HasHistoryFactor(risks') <=>
                       (n >= 3 /\ 2 * MissedCount(h) > n)
                 /\ n \in {1, 2} => ~HasHistoryFactor(risks')
                 /\ 2 * MissedCount(h) = n => ~HasHistoryFactor(risks')
       /\ (/\ pc' \in {"estimated", "risks"} /\ pc' /= pc
           /\ Len(historical_data'.items) \in {1, 2}) =>
             LET h == historical_data'
                 n == Len(h.items)
                 p == ReferenceAdditive(
                          extract_deadline_features(deadline', now))
                 blended == Frac(7 * p * n + 3000 * (n - MissedCount(h)),
                                 10000 * n)
             IN  FracEq(probability',
                        IF blended.num > blended.den THEN Frac(1, 1)
                        ELSE IF blended.num < 0 THEN Frac(0, 1)
                        ELSE blended)]_vars

\* C16 witness: the analyzer has returned without the historical factor for
\* a collection of 4 records of which exactly 2 are not completed, one of the
\* completed ones spelled 'Terminée'
C16_HalfMissedNoFactor ==
    /\ pc = "analyzed"
    /\ Len(historical_data.items) = 4
    /\ MissedCount(historical_data) = 2
    /\ \E i \in 1..4 : historical_data.items[i].status = "Terminée"
    /\ ~HasHistoryFactor(risks)

\* the string each named risk factor contributes
RiskString ==
    [x \in {"Échéance en weekend", "Historique défavorable",
            "Tâche haute priorité peu avancée"} |->
        CASE x = "Échéance en weekend" ->
               "Planifier l'achèvement pour le vendredi précédent"
          [] x = "Historique défavorable" ->
               "Analyser les causes d'échecs précédents pour éviter les mêmes erreurs"
          [] x = "Tâche haute priorité peu avancée" ->
               "Organiser une session de travail intensif (type 'sprint') sur cette tâche"]

\* the generated sequence: two time strings, two status strings, two
\* priority strings, one string per named risk, three generic strings
ExpectedSequence(seconds, f, rs) ==
    LET time ==
            CASE seconds < 0 ->
                   <<"Redéfinir l'échéance avec une nouvelle date réaliste",
                     "Communiquer immédiatement avec les parties prenantes concernant le retard">>
              [] seconds >= 0 /\ seconds < DaySeconds ->
                   <<"Concentrer tous les efforts sur cette tâche en priorité",
                     "Éliminer toutes les distractions et réunions non essentielles">>
              [] seconds >= DaySeconds /\ seconds < 3 * DaySeconds ->
                   <<"Allouer un bloc de temps dédié chaque jour à cette tâche",
                     "Identifier et résoudre rapidement les blocages potentiels">>
              [] OTHER -> <<>>
        status ==
            IF f.status_progress < 3
            THEN <<"Décomposer l'échéance en sous-tâches plus petites et gérables",
                   "Définir des jalons intermédiaires pour suivre la progression">>
            ELSE <<>>
        priority ==
            IF f.priority_value >= 3
            THEN <<"Envisager de déléguer d'autres tâches moins prioritaires",
                   "Solliciter des ressources supplémentaires si nécessaire">>
            ELSE <<>>
        named == SelectSeq(rs, LAMBDA r : r.factor \in DOMAIN RiskString)
        byRisk == [i \in 1..Len(named) |-> RiskString[named[i].factor]]
        rules == time \o status \o priority \o byRisk
    IN  IF Len(rules) < 3
        THEN rules \o
             <<"Mettre en place des points de contrôle réguliers pour suivre l'avancement",
               "Documenter les progrès et les obstacles rencontrés",
               "Maintenir une communication claire avec toutes les parties prenantes">>
        ELSE rules

\* C17: generate_deadline_recommendations returns exactly the first
\* min(5, n) entries of the generated sequence, in generation order: the
\* time strings, the status strings, the priority strings, one string per
\* named risk factor in the order of the risk list, then the generic
\* strings if fewer than 3 were generated.
C17_FirstFiveInGenerationOrder ==
    [][(pc' \in {"generated", "stats"} /\ pc' /= pc) =>
          LET expected ==
                  ExpectedSequence(deadline'.deadlineDate - now,
                                   extract_deadline_features(deadline', now),
                                   risks')
              n == Len(expected)
          IN  recommendations' =
                  [i \in 1..(IF n < 5 THEN n ELSE 5) |-> expected[i]]]_vars

\* C17 witness: the generator has returned, for a risk list naming the
\* historical factor before the weekend factor, their two strings in that
\* order after the time strings
C17_RiskListOrderKept ==
    /\ pc = "generated"
    /\ Len(risks) = 2
    /\ risks[1].factor = "Historique défavorable"
    /\ risks[2].factor = "Échéance en weekend"
    /\ Len(recommendations) = 4
    /\ recommendations[3] =
          "Analyser les causes d'échecs précédents pour éviter les mêmes erreurs"
    /\ recommendations[4] = "Planifier l'achèvement pour le vendredi précédent"

\* the two strings of the rule for a progress below 0.3, one after the other
HasDecomposition(list) ==
    \E i \in 1..(Len(list) - 1) :
        /\ list[i] =
              "Décomposer l'échéance en sous-tâches plus petites et gérables"
        /\ list[i + 1] =
              "Définir des jalons intermédiaires pour suivre la progression"

\* C20: a cancelled record (status 'annulée', progress -1.0) is treated as
\* the lowest progress: with priority >= 3 the analyzer appends the
\* high-priority-low-progress factor of impact high, the generator generates
\* the two decomposition and milestone strings, and the estimator adds 0 for
\* the status, as it does for 'nouvelle'.
C20_CancelledIsLowestProgress ==
    [][(pc' /= pc /\ deadline'.isModel
            /\ Lower(deadline'.status) = "annulée") =>
          LET f == extract_deadline_features(deadline', now)
          IN  /\ pc' \in {"extracted", "estimate"} =>
                    features'.status_progress = -10
              /\ (pc' \in {"analyzed", "recommend"} /\ f.priority_value >= 3) =>
                    \E i \in 1..Len(risks') :
                        /\ risks'[i].factor = "Tâche haute priorité peu avancée"
                        /\ risks'[i].impact = "high"
              /\ pc' \in {"generated", "stats"} =>
                    /\ HasDecomposition(generated')
                    /\ HasDecomposition(recommendations')
              /\ pc' \in {"estimated", "risks"} =>
                    FracEq(probability',
                           ReferenceEstimate([f EXCEPT !.status_progress = 0],
                                             historical_data'))]_vars

\* C20 witness: the whole analysis has returned for a cancelled record of
\* critical priority, with the high-priority-low-progress factor among the
\* risks and the decomposition strings among the recommendations
C20_CancelledAnalyzed ==
    /\ pc = "returned"
    /\ results.has_features
    /\ deadline.status = "annulée"
    /\ deadline.priority = "critique"
    /\ features.status_progress = -10
    /\ \E i \in 1..Len(risks) :
          risks[i].factor = "Tâche haute priorité peu avancée"
    /\ HasDecomposition(recommendations)

-----------------------------------------------------------------------------
(* Properties of the normalization chain of predict *)

\* a PredictionResponse has been handed to the caller
Answered == ppc = "done" /\ response.outcome = "PredictionResponse"

\* C2: for every raw text of the model (empty, unbalanced or reversed braces,
\* no structure, or braces around a parseable object whose fields have an
\* unexpected type) the normalization chain ends by returning a
\* PredictionResponse, never by an error surfaced to the caller.
C2_ChainAlwaysAnswers ==
    ppc = "done" => response.outcome = "PredictionResponse"

\* C3: at every exit of the chain the returned completion probability lies
\* in [0, 1], after Stage 1 parsed an object as well as after Stage 2 took a
\* probability-labelled number from the text or defaulted to 0.5.
C3_ProbabilityInUnitInterval ==
    Answered => InUnitInterval(response.completion_probability)

\* C4: at every exit of the chain the returned risk_factors and
\* recommendations are both non-empty lists, after Stage 1 (also for an
\* object that omits them or gives an empty list) as well as after the rescue
\* stages.
C4_ListsNonEmpty ==
    Answered =>
        /\ Len(response.risk_factors) > 0
        /\ Len(response.recommendations) > 0

\* the text of the example: {"completion_probability": 0.73,
\* "risk_factors": ["A"], "recommendations": "B"}
ExampleObject ==
    <<"{", Quote("completion_probability"), ":", "0.73", ",",
      Quote("risk_factors"), ":", "[", Quote("A"), "]", ",",
      Quote("recommendations"), ":", Quote("B"), "}">>

\* entry i of the returned risk factors is {"factor": name, "impact": "medium"}
IsMediumFactor(i, name) ==
    response.risk_factors[i] =
        JObject(<<<<"factor", JString(name)>>, <<"impact", JString("medium")>>>>)

\* C9: Stage 1 field normalization.  When the first '{' to last '}' substring
\* parses as an object and Stage 1 answers, a risk_factors string has become
\* one factor of that name and impact medium, a list of strings one such
\* factor per string in the same order, a list of factor objects is returned
\* unchanged, and a recommendations string has become a singleton list; the
\* example object gives 0.73, one factor 'A' of impact medium and ["B"].
C9_Stage1FieldNormalization ==
    (Answered /\ stages = <<"stage1">>) =>
        LET data == json_loads(json_str(response_text)).value
            rf == Get(data, "risk_factors", JList(<<>>))
            rec == Get(data, "recommendations", JList(<<>>))
        IN  /\ rf.type = "string" =>
                  /\ Len(response.risk_factors) = 1
                  /\ IsMediumFactor(1, rf.str)
            /\ (rf.type = "list"
                    /\ \A i \in 1..Len(rf.items) : rf.items[i].type = "string") =>
                  /\ Len(response.risk_factors) = Len(rf.items)
                  /\ \A i \in 1..Len(rf.items) : IsMediumFactor(i, rf.items[i].str)
            /\ (rf.type = "list"
                    /\ \A i \in 1..Len(rf.items) : rf.items[i].type = "object") =>
                  response.risk_factors = rf.items
            /\ rec.type = "string" => response.recommendations = <<rec.str>>
            /\ json_str(response_text) = ExampleObject =>
                  /\ FracEq(response.completion_probability, Frac(73, 100))
                  /\ Len(response.risk_factors) = 1
                  /\ IsMediumFactor(1, "A")
                  /\ response.recommendations = <<"B">>

\* C9 witness: Stage 1 has answered the example object, embedded in more text
C9_ExampleAnswered ==
    /\ Answered
    /\ stages = <<"stage1">>
    /\ json_str(response_text) = ExampleObject
    /\ Len(response_text) > Len(ExampleObject)
    /\ Len(response.risk_factors) = 1
    /\ response.recommendations = <<"B">>


\* C18: when the object of Stage 1 parses but completion_probability is
\* absent or cannot be coerced to a number (non-numeric string, null, list,
\* object), the probability returned is 0.5; a value that can be coerced is
\* returned clamped to [0, 1].
C18_UncoercibleGivesHalf ==
    (/\ ppc = "done"
     /\ stages = <<"stage1">>
     /\ json_loads(json_str(response_text)).ok) =>
        LET data == json_loads(json_str(response_text)).value
            absent == ~HasKey(data, "completion_probability")
            cp == Get(data, "completion_probability", JNull)
            coercible ==
                \/ cp.type = "number"
                \/ cp.type = "string" /\ cp.str \in NumericStrings
        IN  /\ (absent /\ Answered) =>
                  FracEq(response.completion_probability, Frac(1, 2))
            /\ (~absent /\ ~coercible) =>
                  /\ Answered
                  /\ FracEq(response.completion_probability, Frac(1, 2))
            /\ (~absent /\ coercible /\ Answered) =>
                  InUnitInterval(response.completion_probability)


\* Stage 1 has a parsed object: both braces are found and the substring
\* between them parses
Stage1Parsed ==
    /\ \E i \in 1..Len(response_text) : response_text[i] = "{"
    /\ \E i \in 1..Len(response_text) : response_text[i] = "}"
    /\ json_loads(json_str(response_text)).ok

\* C19: the stages run in order; the rescue stages run exactly when Stage 1
\* has no parsed object (no '{', no '}', or a substring that fails to
\* parse), and then the request is answered, not failed; when Stage 1 parses
\* and answers, every field returned comes from the parsed object and no
\* rescue stage has contributed.
C19_RescueIffNotParsed ==
    /\ \E n \in 0..4 :
          stages = SubSeq(<<"stage1", "stage2", "stage3", "stage4">>, 1, n)
    /\ ppc = "done" =>
          /\ Stage1Parsed <=> stages = <<"stage1">>
          /\ ~Stage1Parsed <=>
                stages = <<"stage1", "stage2", "stage3", "stage4">>
          /\ ~Stage1Parsed => Answered
          /\ (Stage1Parsed /\ Answered) =>
                LET data == json_loads(json_str(response_text)).value
                    cp == Get(data, "completion_probability",
                              JNumber(Frac(1, 2)))
                    value == IF cp.type = "number" THEN cp.num
                             ELSE FloatOfString(cp.str)
                    rf == Get(data, "risk_factors", JList(<<>>))
                    rec == Get(data, "recommendations", JList(<<>>))
                IN  /\ FracEq(response.completion_probability,
                              IF FracLess(Frac(1, 1), value) THEN Frac(1, 1)
                              ELSE IF FracLess(value, Frac(0, 1))
                              THEN Frac(0, 1)
                              ELSE value)
                    /\ response.risk_factors = NormalizeRiskFactors(rf).items
                    /\ response.recommendations =
                          (IF rec.type = "string" THEN <<rec.str>>
                           ELSE StringsOf(rec))
                    /\ heuristic_probability = Frac(0, 1)
                    /\ factors = <<>>
                    /\ heuristic_recommendations = <<>>
====
